---- MODULE Spec2Model ----
(***************************************************************************)
(* Model of src/mem0.py: the Open WebUI Filter that augments the last      *)
(* message of a conversation with memories retrieved from a mem0 store     *)
(* (inlet) and records assistant replies (outlet).                         *)
(*                                                                         *)
(* Python dicts are functions (a missing key is a missing domain element), *)
(* None and the empty dict are the empty function, text is a sequence of   *)
(* string tokens, so that concatenation and join are sequence operations.  *)
(* The code between two awaits of a coroutine runs without interleaving,   *)
(* so each action is the code from one await point (or the call) to the    *)
(* next await point (or the return).  The mem0 store and the host's event  *)
(* sink are outside the repository: the store's calls return or raise as   *)
(* the environment chooses, the sink accepts every event.  Messages carry  *)
(* a role and a text content, as in the data model of the spec.            *)
(***************************************************************************)
EXTENDS Integers, Sequences, FiniteSets, TLC

\* ---------------------------------------------------------------- bounds
MaxMsgs == 2        \* longest conversation the host submits
MaxResults == 2     \* longest result list the store returns
NProcs == 2         \* hook invocations that may be in flight together

\* ------------------------------------------------------ python primitives
None == [k \in {} |-> 0]

Get(d, k, dflt) == IF k \in DOMAIN d THEN d[k] ELSE dflt

\* truth value of a dict or a list: it is not None and not empty
Truthy(d) == DOMAIN d # {}

RECURSIVE Join(_, _)
Join(lines, sep) ==
  IF Len(lines) = 0 THEN << >>
  ELSE IF Len(lines) = 1 THEN lines[1]
  ELSE lines[1] \o sep \o Join(Tail(lines), sep)

SeqsUpTo(S, n) == UNION {[1..k -> S] : k \in 0..n}

\* ------------------------------------------------------------- Valves
qdrant_host == "localhost"
qdrant_port == 6333
qdrant_collection == "mem0_memories"
top_k_memories == 3

\* UserValves(**valves): pydantic coerces the bool field and rejects what
\* is no boolean with a ValidationError; absent fields take the defaults.
BoolTrue == {"true"}
BoolFalse == {"false"}

UserValvesValid(raw) ==
  "memory_enabled" \in DOMAIN raw => raw["memory_enabled"] \in BoolTrue \cup BoolFalse

UserValves(raw) ==
  [memory_enabled |-> IF "memory_enabled" \in DOMAIN raw
                      THEN raw["memory_enabled"] \in BoolTrue
                      ELSE TRUE,
   user_memory_tag |-> Get(raw, "user_memory_tag", "")]

\* ---------------------------------------------------------------- inputs
Roles == {"user", "assistant", "system"}

ContentOf(role) ==
  CASE role = "user" -> <<"What's my favorite color?">>
    [] role = "assistant" -> <<"Blue is great!">>
    [] OTHER -> <<"You are helpful.">>

Message(role) == [role |-> role, content |-> ContentOf(role)]

\* the turns before the last message: system prompt, question, answer, ...
History(n) ==
  [i \in 1..n |-> Message(IF i = 1 THEN "system" ELSE IF i % 2 = 0 THEN "user" ELSE "assistant")]

\* body dicts: without "messages", with an empty list, and with up to
\* MaxMsgs messages of which the last has any role
Bodies == {[model |-> "llama3"], [model |-> "llama3", messages |-> << >>]}
          \cup {[model |-> "llama3", messages |-> Append(History(n), Message(r))] :
                  n \in 0..(MaxMsgs - 1), r \in Roles}

\* __user__: None, without id and valves, with valid valves (memory on, memory
\* off), and with a memory_enabled value that is no boolean
Users == {None,
          [name |-> "Bob"],
          [id |-> "u1", name |-> "Ann",
           valves |-> [memory_enabled |-> "true", user_memory_tag |-> "work"]],
          [id |-> "u2", valves |-> [memory_enabled |-> "false"]],
          [id |-> "u1", valves |-> [memory_enabled |-> "maybe"]]}

MemoryRecords == {[memory |-> <<"User likes blue">>, text |-> <<"stale">>],
                  [text |-> <<"User has a cat">>]}

SearchResults == SeqsUpTo(MemoryRecords, MaxResults)

Errors == {<<"timeout">>}

\* what a store call does: it returns (search: a result list) or raises
SearchOutcomes == {[raised |-> FALSE, value |-> r] : r \in SearchResults}
                  \cup {[raised |-> TRUE, value |-> e] : e \in Errors}

AddOutcomes == {[raised |-> FALSE, value |-> << >>]}
               \cup {[raised |-> TRUE, value |-> e] : e \in Errors}

\* what the body of initialize_clients' try block does
CtorOutcomes == {"ok", "import_error", "qdrant_error", "mem0_error"}

Procs == 1..NProcs

\* ------------------------------------------------------------ exceptions
\* str(e) of the exception a store call raised
Str(e) == e

\* ----------------------------------------------------------------- state
VARIABLES
  self,     \* the Filter: toggle, initialized, mem0_client, qdrant_client
  pc,       \* per invocation: where the coroutine is suspended
  hook,     \* per invocation: "inlet" or "outlet"
  body,     \* per invocation: the body dict (the host's object, mutated in place)
  user,     \* per invocation: the __user__ argument
  frame,    \* per invocation: the locals assigned so far
  entry,    \* per invocation: the body, toggle and initialized as the hook was called
  log,      \* per invocation: its effects in order (emits, store calls, ...)
  again,    \* per invocation: inlet was called on what a disabled inlet returned
  ctor      \* the constructions: the last step's attempt, failures, handles made

vars == <<self, pc, hook, body, user, frame, entry, log, again, ctor>>

\* Filter.__init__
Filter ==
  [toggle |-> TRUE, mem0_client |-> None, qdrant_client |-> None, initialized |-> FALSE]

QdrantClient == [class |-> "QdrantClient", host |-> qdrant_host, port |-> qdrant_port]

Memory(n) == [class |-> "Memory", collection_name |-> qdrant_collection, instance |-> n]

\* mutant: initialized is set before Memory.from_config is called
TryBlock_FlagFirst(s, outcome, n) ==
  CASE outcome = "ok" ->
         [s EXCEPT !.qdrant_client = QdrantClient,
                   !.mem0_client = Memory(n),
                   !.initialized = TRUE]
    [] outcome = "import_error" ->
         [s EXCEPT !.initialized = FALSE]
    [] outcome = "qdrant_error" ->
         [s EXCEPT !.qdrant_client = QdrantClient, !.initialized = FALSE]
    [] OTHER ->
         [s EXCEPT !.qdrant_client = QdrantClient, !.initialized = TRUE]

\* lines 82-136: outcome is what the body of the try block does: the imports
\* fail (import_error), get_collections or create_collection raises on the
\* new Qdrant client (qdrant_error), Memory.from_config raises (mem0_error),
\* or all of it succeeds (ok); n numbers the Memory instance made
TryBlock(s, outcome, n) ==
  CASE outcome = "ok" ->
         [s EXCEPT !.qdrant_client = QdrantClient,
                   !.mem0_client = Memory(n),
                   !.initialized = TRUE]
    [] outcome = "import_error" ->
         [s EXCEPT !.initialized = FALSE]
    [] OTHER ->
         [s EXCEPT !.qdrant_client = QdrantClient, !.initialized = FALSE]

\* mutant: initialize_clients without the guard of line 79
initialize_clients_NoGuard(s, outcome, n) ==
  [self |-> TryBlock(s, outcome, n), ran |-> TRUE]

\* Filter.initialize_clients: the Filter it leaves, and whether it went past
\* the guard of line 79 into the try block
initialize_clients(s, outcome, n) ==
  IF s.initialized THEN [self |-> s, ran |-> FALSE]
  ELSE [self |-> TryBlock(s, outcome, n), ran |-> TRUE]

\* bookkeeping of the constructions, for the claims that count them
Construct(ran, outcome) ==
  IF ran
  THEN [attempt |-> IF outcome = "ok" THEN "ok" ELSE "failed",
        failed |-> ctor.failed \/ outcome # "ok",
        made |-> IF outcome = "ok" THEN ctor.made + 1 ELSE ctor.made]
  ELSE [ctor EXCEPT !.attempt = "none"]

NoConstruct == [ctor EXCEPT !.attempt = "none"]

\* ---------------------------------------------------------------- effects
Status(description, done) ==
  [type |-> "status", data |-> [description |-> description, done |-> done]]

SearchingStatus ==
  [type |-> "status",
   data |-> [description |-> <<"Searching", " memories (top ", ToString(top_k_memories), ")...">>,
             done |-> FALSE, hidden |-> FALSE]]

NotConfiguredStatus == Status(<<"Mem0", " not configured">>, TRUE)

AddedStatus(search_results) ==
  Status(<<"Added", " ", ToString(Len(search_results)), " memories">>, TRUE)

ErrorStatus(e) == Status(<<"Memory", " ", "error", ": ">> \o Str(e), TRUE)

Emit(event) == [effect |-> "emit", event |-> event]

Constructed(outcome) == [effect |-> "construct", outcome |-> outcome]

Searched(client, query, user_id, limit, outcome) ==
  [effect |-> "search", client |-> client, query |-> query, user_id |-> user_id,
   limit |-> limit, outcome |-> outcome]

Added(client, messages, user_id, metadata, outcome) ==
  [effect |-> "add", client |-> client, messages |-> messages, user_id |-> user_id,
   metadata |-> metadata, outcome |-> outcome]

Mutated(content) == [effect |-> "augment", content |-> content]

\* ----------------------------------------------------------- hook pieces
\* lines 149 and 262: the per-user settings can be parsed
ValvesGiven(u) == Truthy(u) /\ "valves" \in DOMAIN u

ValvesParse(u) == ValvesGiven(u) => UserValvesValid(u["valves"])

\* lines 149-152 and 262-265
user_valves(u) == IF ValvesGiven(u) THEN UserValves(u["valves"]) ELSE UserValves(None)

\* mutant: the id is read under a key __user__ does not have
user_id_WrongKey(u) == IF Truthy(u) THEN Get(u, "user_id", "default") ELSE "default"

\* lines 159 and 270
user_id(u) == IF Truthy(u) THEN Get(u, "id", "default") ELSE "default"

\* lines 228-230 and 277-279
metadata(valves) ==
  IF valves.user_memory_tag # "" THEN [tag |-> valves.user_memory_tag] ELSE None

\* lines 194 and 274: body.get("messages") and len(body["messages"]) > 0
HasMessages(b) == "messages" \in DOMAIN b /\ Len(b["messages"]) > 0

LastMessage(b) == b["messages"][Len(b["messages"])]

\* line 208
memory_text(memory) == Get(memory, "memory", Get(memory, "text", << >>))

\* lines 206-211
RECURSIVE context_lines(_)
context_lines(search_results) ==
  IF Len(search_results) = 0 THEN <<<<"[Memory Context]">>>>
  ELSE Append(context_lines(SubSeq(search_results, 1, Len(search_results) - 1)),
              <<"- ">> \o memory_text(search_results[Len(search_results)]))

\* mutant: the memory lines in reverse order
context_Reversed(search_results) ==
  LET lines == context_lines(search_results)
  IN Join([i \in 1..Len(lines) |-> IF i = 1 THEN lines[1] ELSE lines[Len(lines) + 2 - i]],
          <<"\n">>)

context(search_results) == Join(context_lines(search_results), <<"\n">>)

\* line 215
Augmented(search_results, original_message) ==
  context(search_results) \o <<"\n", "\n", "[Current Message]", "\n">> \o original_message

\* mutant: the context goes to the first message (index 0 for index -1)
SetLastContent_First(b, content) ==
  [b EXCEPT !["messages"][1]["content"] = content]

SetLastContent(b, content) ==
  [b EXCEPT !["messages"][Len(b["messages"])]["content"] = content]

\* ------------------------------------------------------------------ Init
Init ==
  /\ self = Filter
  /\ pc = [p \in Procs |-> "idle"]
  /\ hook = [p \in Procs |-> "none"]
  /\ body = [p \in Procs |-> None]
  /\ user = [p \in Procs |-> None]
  /\ frame = [p \in Procs |-> None]
  /\ entry = [p \in Procs |-> [body |-> None, toggle |-> TRUE, initialized |-> FALSE]]
  /\ log = [p \in Procs |-> << >>]
  /\ again = [p \in Procs |-> FALSE]
  /\ ctor = [attempt |-> "none", failed |-> FALSE, made |-> 0]

Finished(p) == pc[p] \in {"idle", "returned", "raised"}

\* the user's valves are given, can be parsed and switch the memory off
MemoryOff(u) ==
  /\ ValvesGiven(u)
  /\ "memory_enabled" \in DOMAIN u["valves"]
  /\ u["valves"]["memory_enabled"] \in BoolFalse

\* the call in slot p was made with the toggle off or the user's memory off
Disabled(p) == ~entry[p].toggle \/ MemoryOff(user[p])

\* the host calls a hook: its arguments are bound, nothing has run yet
Call(p, h, b, u) ==
  /\ Finished(p)
  /\ hook' = [hook EXCEPT ![p] = h]
  /\ body' = [body EXCEPT ![p] = b]
  /\ user' = [user EXCEPT ![p] = u]
  /\ entry' = [entry EXCEPT ![p] = [body |-> b, toggle |-> self.toggle,
                                         initialized |-> self.initialized]]
  /\ again' = [again EXCEPT ![p] = /\ h = "inlet" /\ hook[p] = "inlet"
                                    /\ pc[p] = "returned" /\ Disabled(p)
                                    /\ b = body[p]]

\* the running coroutine p goes on: to (pc, frame, log), body and Filter given
Resume(p) ==
  /\ ~Finished(p)
  /\ UNCHANGED <<hook, user, entry, again>>

\* ------------------------------------------------------- the host's switch
\* line 63: toggle is the switch the host's UI flips
SetToggle(b) ==
  /\ self.toggle # b
  /\ self' = [self EXCEPT !.toggle = b]
  /\ ctor' = NoConstruct
  /\ UNCHANGED <<pc, hook, body, user, frame, entry, log, again>>

\* ------------------------------------------------- initialize_clients()
\* lines 74-136, called by the host's setup code
InitializeClients(outcome) ==
  /\ self' = initialize_clients(self, outcome, ctor.made + 1).self
  /\ ctor' = Construct(initialize_clients(self, outcome, ctor.made + 1).ran, outcome)
  /\ UNCHANGED <<pc, hook, body, user, frame, entry, log, again>>

\* ------------------------------------------------------------------ inlet
\* mutant: inlet without the memory_enabled guard of lines 155-156
InletEntry_IgnoresUserSwitch(b, u, s) ==
  IF ~s.toggle
  THEN [pc |-> "returned", frame |-> None, log |-> << >>]
  ELSE IF ~ValvesParse(u)
  THEN [pc |-> "raised", frame |-> None, log |-> << >>]
  ELSE [pc |-> "searching",
        frame |-> [user_valves |-> user_valves(u), user_id |-> user_id(u)],
        log |-> <<Emit(SearchingStatus)>>]

\* lines 144-174: from the call to the await of the "searching" status
InletEntry(b, u, s) ==
  IF ~s.toggle
  THEN [pc |-> "returned", frame |-> None, log |-> << >>]
  ELSE IF ~ValvesParse(u)
  THEN [pc |-> "raised", frame |-> None, log |-> << >>]
  ELSE IF ~user_valves(u).memory_enabled
  THEN [pc |-> "returned", frame |-> [user_valves |-> user_valves(u)], log |-> << >>]
  ELSE [pc |-> "searching",
        frame |-> [user_valves |-> user_valves(u), user_id |-> user_id(u)],
        log |-> <<Emit(SearchingStatus)>>]

InletCall(p, b, u) ==
  /\ Call(p, "inlet", b, u)
  /\ pc' = [pc EXCEPT ![p] = InletEntry(b, u, self).pc]
  /\ frame' = [frame EXCEPT ![p] = InletEntry(b, u, self).frame]
  /\ log' = [log EXCEPT ![p] = InletEntry(b, u, self).log]
  /\ ctor' = NoConstruct
  /\ UNCHANGED self

\* mutant: an except clause that only prints, as the one of outlet
Handler_Silent(st, e) == [st EXCEPT !.pc = "returned"]

\* lines 238-248: the except clause reports the error and awaits the sink
Handler(st, e) ==
  [st EXCEPT !.pc = "error", !.log = Append(st.log, Emit(ErrorStatus(e)))]

\* mutant: store the content the last message has now
StoreAdd_CurrentContent(st, client, outcome) ==
  LET call == Added(client,
                    <<[role |-> "user", content |-> LastMessage(st.body)["content"]]>>,
                    st.frame["user_id"],
                    metadata(st.frame["user_valves"]),
                    outcome)
      called == [st EXCEPT !.log = Append(st.log, call)]
  IN IF outcome.raised
     THEN [called EXCEPT !.pc = "error",
                         !.log = Append(called.log, Emit(ErrorStatus(outcome.value)))]
     ELSE [called EXCEPT !.pc = "returned"]

\* mutant: a failing add is not reported
StoreAdd_Swallows(st, client, outcome) ==
  LET call == Added(client,
                    <<[role |-> "user", content |-> st.frame["last_message"]]>>,
                    st.frame["user_id"],
                    metadata(st.frame["user_valves"]),
                    outcome)
  IN [st EXCEPT !.log = Append(st.log, call), !.pc = "returned"]

\* mutant: the record keeps the role of the last message
StoreAdd_KeepsRole(st, client, outcome) ==
  LET call == Added(client,
                    <<[role |-> LastMessage(st.body)["role"],
                       content |-> st.frame["last_message"]]>>,
                    st.frame["user_id"],
                    metadata(st.frame["user_valves"]),
                    outcome)
      called == [st EXCEPT !.log = Append(st.log, call)]
  IN IF outcome.raised
     THEN [called EXCEPT !.pc = "error",
                         !.log = Append(called.log, Emit(ErrorStatus(outcome.value)))]
     ELSE [called EXCEPT !.pc = "returned"]

\* lines 227-236: store the message that was last on entry as a new memory
StoreAdd(st, client, outcome) ==
  LET call == Added(client,
                    <<[role |-> "user", content |-> st.frame["last_message"]]>>,
                    st.frame["user_id"],
                    metadata(st.frame["user_valves"]),
                    outcome)
      called == [st EXCEPT !.log = Append(st.log, call)]
  IN IF outcome.raised THEN Handler(called, outcome.value)
     ELSE [called EXCEPT !.pc = "returned"]

\* lines 204-225: prepend the memories to the last message and say so
Augment(st, search_results) ==
  LET original_message == LastMessage(st.body)["content"]
      content == Augmented(search_results, original_message)
  IN [st EXCEPT !.pc = "added",
                !.body = SetLastContent(st.body, content),
                !.log = st.log \o <<Mutated(content), Emit(AddedStatus(search_results))>>]

\* mutant: the add is made although the search raised
SearchAndStore_AddAfterError(st, client, found, stored) ==
  LET last_message == Get(LastMessage(st.body), "content", << >>)
      call == Searched(client, last_message, st.frame["user_id"], top_k_memories, found)
      searched == [st EXCEPT !.frame = [k \in DOMAIN st.frame \cup {"last_message"} |->
                                          IF k = "last_message" THEN last_message
                                          ELSE st.frame[k]],
                             !.log = Append(st.log, call)]
  IN IF found.raised THEN StoreAdd(searched, client, stored)
     ELSE IF Len(found.value) > 0 THEN Augment(searched, found.value)
     ELSE StoreAdd(searched, client, stored)

\* mutant: the add is made only when memories were found
SearchAndStore_AddOnlyIfFound(st, client, found, stored) ==
  LET last_message == Get(LastMessage(st.body), "content", << >>)
      call == Searched(client, last_message, st.frame["user_id"], top_k_memories, found)
      searched == [st EXCEPT !.frame = [k \in DOMAIN st.frame \cup {"last_message"} |->
                                          IF k = "last_message" THEN last_message
                                          ELSE st.frame[k]],
                             !.log = Append(st.log, call)]
  IN IF found.raised THEN Handler(searched, found.value)
     ELSE IF Len(found.value) > 0 THEN Augment(searched, found.value)
     ELSE [searched EXCEPT !.pc = "returned"]

\* lines 193-236, up to the next await or the return
SearchAndStore(st, client, found, stored) ==
  LET last_message == Get(LastMessage(st.body), "content", << >>)
      call == Searched(client, last_message, st.frame["user_id"], top_k_memories, found)
      searched == [st EXCEPT !.frame = [k \in DOMAIN st.frame \cup {"last_message"} |->
                                          IF k = "last_message" THEN last_message
                                          ELSE st.frame[k]],
                             !.log = Append(st.log, call)]
  IN IF found.raised THEN Handler(searched, found.value)
     ELSE IF Len(found.value) > 0 THEN Augment(searched, found.value)
     ELSE StoreAdd(searched, client, stored)

\* mutant: without messages inlet searches with the empty text
InletBody_SearchesEmpty(st, s, ran, outcome, found, stored) ==
  LET tried == IF ran
               THEN [st EXCEPT !.log = Append(st.log, Constructed(outcome))]
               ELSE st
  IN IF ~Truthy(s.mem0_client)
     THEN [tried EXCEPT !.pc = "not_configured",
                        !.log = Append(tried.log, Emit(NotConfiguredStatus))]
     ELSE IF HasMessages(tried.body)
     THEN SearchAndStore(tried, s.mem0_client, found, stored)
     ELSE [tried EXCEPT !.pc = "returned",
                        !.log = Append(tried.log,
                                       Searched(s.mem0_client, << >>, tried.frame["user_id"],
                                                top_k_memories, found))]

\* mutant: inlet without the client check of lines 181-191
InletBody_NoClientCheck(st, s, ran, outcome, found, stored) ==
  LET tried == IF ran
               THEN [st EXCEPT !.log = Append(st.log, Constructed(outcome))]
               ELSE st
  IN IF HasMessages(tried.body)
     THEN SearchAndStore(tried, s.mem0_client, found, stored)
     ELSE [tried EXCEPT !.pc = "returned"]

\* lines 176-236, from the "searching" await to the next await or the return;
\* s is the Filter after line 179
InletBody(st, s, ran, outcome, found, stored) ==
  LET tried == IF ran
               THEN [st EXCEPT !.log = Append(st.log, Constructed(outcome))]
               ELSE st
  IN IF ~Truthy(s.mem0_client)
     THEN [tried EXCEPT !.pc = "not_configured",
                        !.log = Append(tried.log, Emit(NotConfiguredStatus))]
     ELSE IF HasMessages(tried.body)
     THEN SearchAndStore(tried, s.mem0_client, found, stored)
     ELSE [tried EXCEPT !.pc = "returned"]

State(p) == [pc |-> pc[p], frame |-> frame[p], log |-> log[p], body |-> body[p]]

Become(p, st) ==
  /\ pc' = [pc EXCEPT ![p] = st.pc]
  /\ frame' = [frame EXCEPT ![p] = st.frame]
  /\ log' = [log EXCEPT ![p] = st.log]
  /\ body' = [body EXCEPT ![p] = st.body]

\* mutant: inlet constructs on every call
EnsureClients_Always(s, outcome, n) ==
  [self |-> TryBlock(s, outcome, n), ran |-> TRUE]

\* lines 178-179
EnsureClients(s, outcome, n) ==
  IF ~s.initialized THEN initialize_clients(s, outcome, n) ELSE [self |-> s, ran |-> FALSE]

InletAfterSearching(p, outcome, found, stored) ==
  /\ Resume(p)
  /\ pc[p] = "searching"
  /\ self' = EnsureClients(self, outcome, ctor.made + 1).self
  /\ ctor' = Construct(EnsureClients(self, outcome, ctor.made + 1).ran, outcome)
  /\ Become(p, InletBody(State(p), self', EnsureClients(self, outcome, ctor.made + 1).ran,
                         outcome, found, stored))

\* line 191
InletAfterNotConfigured(p) ==
  /\ Resume(p)
  /\ pc[p] = "not_configured"
  /\ pc' = [pc EXCEPT ![p] = "returned"]
  /\ ctor' = NoConstruct
  /\ UNCHANGED <<self, body, frame, log>>

\* lines 227-236, after the await of the "added" status
InletAfterAdded(p, stored) ==
  /\ Resume(p)
  /\ pc[p] = "added"
  /\ Become(p, StoreAdd(State(p), self.mem0_client, stored))
  /\ ctor' = NoConstruct
  /\ UNCHANGED self

\* line 250, after the await of the error status
InletAfterError(p) ==
  /\ Resume(p)
  /\ pc[p] = "error"
  /\ pc' = [pc EXCEPT ![p] = "returned"]
  /\ ctor' = NoConstruct
  /\ UNCHANGED <<self, body, frame, log>>

\* ----------------------------------------------------------------- outlet
\* mutant: outlet without the role check of line 276
OutletBody_AnyRole(b, u, s, stored) ==
  LET off == [pc |-> "returned", frame |-> None, log |-> << >>, body |-> b]
      valves == user_valves(u)
      call == Added(s.mem0_client, <<LastMessage(b)>>, user_id(u), metadata(valves), stored)
  IN IF ~s.toggle \/ ~s.initialized \/ ~Truthy(s.mem0_client) THEN off
     ELSE IF ~ValvesParse(u) THEN [off EXCEPT !.pc = "raised"]
     ELSE IF ~valves.memory_enabled
     THEN [off EXCEPT !.frame = [user_valves |-> valves]]
     ELSE [off EXCEPT !.frame = [user_valves |-> valves, user_id |-> user_id(u)],
                      !.log = IF HasMessages(b) THEN <<call>> ELSE << >>]

\* lines 258-290; outlet awaits nothing, so it runs in one step
OutletBody(b, u, s, stored) ==
  LET off == [pc |-> "returned", frame |-> None, log |-> << >>, body |-> b]
      valves == user_valves(u)
      last_message == LastMessage(b)
      call == Added(s.mem0_client, <<last_message>>, user_id(u), metadata(valves), stored)
  IN IF ~s.toggle \/ ~s.initialized \/ ~Truthy(s.mem0_client) THEN off
     ELSE IF ~ValvesParse(u) THEN [off EXCEPT !.pc = "raised"]
     ELSE IF ~valves.memory_enabled
     THEN [off EXCEPT !.frame = [user_valves |-> valves]]
     ELSE [off EXCEPT !.frame = [user_valves |-> valves, user_id |-> user_id(u)],
                      !.log = IF HasMessages(b) /\ Get(last_message, "role", "") = "assistant"
                              THEN <<call>> ELSE << >>]

\* mutant: outlet makes the clients when they are missing, as inlet does
OutletCall_Constructs(p, b, u, stored) ==
  /\ Call(p, "outlet", b, u)
  /\ \E outcome \in CtorOutcomes :
        /\ self' = initialize_clients(self, outcome, ctor.made + 1).self
        /\ ctor' = Construct(initialize_clients(self, outcome, ctor.made + 1).ran, outcome)
  /\ Become(p, OutletBody(b, u, self', stored))

OutletCall(p, b, u, stored) ==
  /\ Call(p, "outlet", b, u)
  /\ Become(p, OutletBody(b, u, self, stored))
  /\ ctor' = NoConstruct
  /\ UNCHANGED self

\* ------------------------------------------------------------------ Next
\* the host runs one hook invocation at a time (slot 1); the switch and the
\* setup call can come between any two of its steps
Next ==
  \/ \E b \in BOOLEAN : SetToggle(b)
  \/ \E outcome \in CtorOutcomes : InitializeClients(outcome)
  \/ \E b \in Bodies, u \in Users : InletCall(1, b, u)
  \/ \E outcome \in CtorOutcomes, found \in SearchOutcomes, stored \in AddOutcomes :
        InletAfterSearching(1, outcome, found, stored)
  \/ InletAfterNotConfigured(1)
  \/ \E stored \in AddOutcomes : InletAfterAdded(1, stored)
  \/ InletAfterError(1)
  \/ \E b \in Bodies, u \in Users, stored \in AddOutcomes : OutletCall(1, b, u, stored)

Spec == Init /\ [][Next]_vars

\* ------------------------------------------------------------- NextConc
\* the host runs up to NProcs hook invocations as coroutines of one event
\* loop: they interleave at their awaits.  The inputs are few: one
\* conversation, no user and a user with an id and a tag, a search that
\* finds one memory or raises.
ConcBodies == {[model |-> "llama3", messages |-> <<Message("assistant")>>]}

ConcUsers == {None, [id |-> "u2", valves |-> [user_memory_tag |-> "home"]]}

ConcSearchOutcomes == {o \in SearchOutcomes : o.raised \/ Len(o.value) = 1}

ConcAddOutcomes == {o \in AddOutcomes : ~o.raised}

ConcCtorOutcomes == {"ok", "mem0_error"}

NextConc ==
  \/ \E outcome \in ConcCtorOutcomes : InitializeClients(outcome)
  \/ \E p \in Procs, b \in ConcBodies, u \in ConcUsers : InletCall(p, b, u)
  \/ \E p \in Procs, outcome \in ConcCtorOutcomes, found \in ConcSearchOutcomes,
        stored \in ConcAddOutcomes :
        InletAfterSearching(p, outcome, found, stored)
  \/ \E p \in Procs : InletAfterNotConfigured(p)
  \/ \E p \in Procs, stored \in ConcAddOutcomes : InletAfterAdded(p, stored)
  \/ \E p \in Procs : InletAfterError(p)
  \/ \E p \in Procs, b \in ConcBodies, u \in ConcUsers, stored \in ConcAddOutcomes :
        OutletCall(p, b, u, stored)

SpecConc == Init /\ [][NextConc]_vars

\* ---------------------------------------------------------------- claims
\* the effects of one kind the invocation in slot p has had, in order
Effects(p, kind) == SelectSeq(log[p], LAMBDA x : x.effect = kind)

Positions(p, kind) == {i \in DOMAIN log[p] : log[p][i].effect = kind}

Emitted(p) == Effects(p, "emit")

Returned(p, h) == hook[p] = h /\ pc[p] = "returned"

\* the content of the last message when the hook was called
Original(p) == LastMessage(entry[p].body)["content"]

\* the invocation's store.search returned a list: empty, or not empty
SearchReturned(p, some) ==
  \E i \in Positions(p, "search") :
     /\ ~log[p][i].outcome.raised
     /\ (Len(log[p][i].outcome.value) > 0) = some

SearchRaised(p) == \E i \in Positions(p, "search") : log[p][i].outcome.raised

\* the list the invocation's store.search returned
Results(p) == Effects(p, "search")[1].outcome.value

\* C1: a hook called with the toggle off, or for a user whose valves switch
\* the memory off, returns the body it was given and has no effect at all: no
\* construction, no store call, no status event; an inlet call on what such
\* a call returned gives the same again.
C1_DisabledPassThrough ==
  \A p \in Procs :
     (hook[p] # "none" /\ Disabled(p)) =>
        /\ pc[p] = "returned"
        /\ body[p] = entry[p].body
        /\ log[p] = << >>

C1_Witness ==
  \E p \in Procs :
     /\ Returned(p, "inlet") /\ again[p]
     /\ entry[p].toggle /\ MemoryOff(user[p])
     /\ HasMessages(entry[p].body)
     /\ self.initialized

\* C2: when the search of an inlet call returned a non-empty list, the last
\* message's content on return is the header, one line "- <text>" per result
\* in the store's order, a blank line, "[Current Message]", and the content
\* the message had on entry.
C2_Text(record) ==
  IF "memory" \in DOMAIN record THEN record["memory"]
  ELSE IF "text" \in DOMAIN record THEN record["text"]
  ELSE << >>

RECURSIVE C2_Bullets(_)
C2_Bullets(results) ==
  IF results = << >> THEN << >>
  ELSE <<"\n", "- ">> \o C2_Text(Head(results)) \o C2_Bullets(Tail(results))

C2_Expected(results, original) ==
  <<"[Memory Context]">> \o C2_Bullets(results)
    \o <<"\n", "\n", "[Current Message]", "\n">> \o original

C2_AugmentedContent ==
  \A p \in Procs :
     (Returned(p, "inlet") /\ SearchReturned(p, TRUE)) =>
        LastMessage(body[p])["content"] = C2_Expected(Results(p), Original(p))

C2_Witness ==
  \E p \in Procs :
     /\ Returned(p, "inlet") /\ SearchReturned(p, TRUE)
     /\ Len(Results(p)) = 2 /\ Results(p)[1] # Results(p)[2]
     /\ LastMessage(body[p])["content"] =
          <<"[Memory Context]", "\n", "- ", "User has a cat", "\n", "- ", "User likes blue",
            "\n", "\n", "[Current Message]", "\n", "What's my favorite color?">>

\* C3: when the search of an inlet call returned a non-empty list, store.add
\* is called once, after the augmentation of the last message, with the
\* content the last message had on entry.
C3_AddOriginalOnce ==
  \A p \in Procs :
     (hook[p] = "inlet" /\ SearchReturned(p, TRUE)) =>
        /\ Len(Effects(p, "add")) <= 1
        /\ pc[p] = "returned" => Len(Effects(p, "add")) = 1
        /\ \A i \in Positions(p, "add") :
              /\ \E j \in Positions(p, "augment") : j < i
              /\ log[p][i].messages = <<[role |-> "user", content |-> Original(p)]>>
              /\ log[p][i].messages[1]["content"] # LastMessage(body[p])["content"]

C3_Witness ==
  \E p \in Procs :
     /\ Returned(p, "inlet") /\ SearchReturned(p, TRUE)
     /\ Len(Effects(p, "add")) = 1
     /\ ~Effects(p, "add")[1].outcome.raised

\* C4: when the search of an inlet call returned an empty list, the body is
\* returned as it was given, and store.add is called once with the content
\* the last message had on entry.
C4_EmptyResults ==
  \A p \in Procs :
     (Returned(p, "inlet") /\ SearchReturned(p, FALSE)) =>
        /\ body[p] = entry[p].body
        /\ Len(Effects(p, "add")) = 1
        /\ Effects(p, "add")[1].messages = <<[role |-> "user", content |-> Original(p)]>>

C4_Witness ==
  \E p \in Procs :
     /\ Returned(p, "inlet") /\ SearchReturned(p, FALSE)
     /\ Len(entry[p].body["messages"]) = 2
     /\ ~Effects(p, "add")[1].outcome.raised

\* C5: no hook invocation ends by raising: whatever fails, inlet and outlet
\* return the body.
C5_NeverRaises == \A p \in Procs : pc[p] # "raised"

\* C6: once a construction has failed, no later step runs the try block of
\* initialize_clients again.
C6_StickyFailure == [][ctor.failed => ctor'.attempt = "none"]_vars

\* the positions in the log of slot p of the effects the step has added
C7_New(p) ==
  IF ~Finished(p) THEN {i \in DOMAIN log'[p] : i > Len(log[p])}
  ELSE IF log'[p] = log[p] /\ pc'[p] = pc[p] THEN {}
  ELSE DOMAIN log'[p]

\* C7: once a construction has succeeded, no step of any hook or of
\* initialize_clients constructs again: the Filter keeps the handle and stays
\* initialized, and the store calls that follow go to that handle.
C7_CachedSuccess ==
  [][self.initialized =>
       /\ ctor'.attempt = "none"
       /\ self'.initialized
       /\ self'.mem0_client = self.mem0_client
       /\ \A p \in Procs :
            \A i \in C7_New(p) :
               /\ log'[p][i].effect # "construct"
               /\ log'[p][i].effect \in {"search", "add"} =>
                     log'[p][i].client = self.mem0_client]_vars

C7_Witness ==
  \E p \in Procs :
     /\ Returned(p, "inlet") /\ entry[p].initialized
     /\ Len(Effects(p, "search")) = 1 /\ Len(Effects(p, "add")) = 1
     /\ Effects(p, "add")[1].client = self.mem0_client
     /\ ctor.made = 1

\* the tokens of the descriptions in lower case, and a text holding a word
\* whatever the case of its letters
C8_Lower(tok) ==
  CASE tok = "Memory" -> "memory"
    [] tok = "Mem0" -> "mem0"
    [] tok = "Added" -> "added"
    [] tok = "Searching" -> "searching"
    [] OTHER -> tok

C8_Contains(text, word) == \E i \in DOMAIN text : C8_Lower(text[i]) = word

\* C8: when store.search raises, inlet returns the body as it was given,
\* calls no store.add, and the last status it emits has done = true and a
\* description that contains "error", whatever the case of the letters.
C8_SearchRaises ==
  \A p \in Procs :
     (hook[p] = "inlet" /\ SearchRaised(p)) =>
        /\ pc[p] \in {"error", "returned"}
        /\ body[p] = entry[p].body
        /\ Effects(p, "add") = << >>
        /\ log[p][Len(log[p])].effect = "emit"
        /\ log[p][Len(log[p])].event.type = "status"
        /\ log[p][Len(log[p])].event.data.done
        /\ C8_Contains(log[p][Len(log[p])].event.data.description, "error")

C8_Witness ==
  \E p \in Procs :
     /\ Returned(p, "inlet") /\ SearchRaised(p)
     /\ Len(Emitted(p)) = 2

\* C9: when the search returned a non-empty list and store.add raises, inlet
\* returns the body with the last message augmented, and the last effect of
\* the invocation, after the failed add, is a status with done = true.
C9_AddRaisesKeepsAugmentation ==
  \A p \in Procs :
     (hook[p] = "inlet" /\ SearchReturned(p, TRUE)
        /\ \E i \in Positions(p, "add") : log[p][i].outcome.raised) =>
        /\ pc[p] \in {"error", "returned"}
        /\ LastMessage(body[p])["content"] = C2_Expected(Results(p), Original(p))
        /\ body[p] # entry[p].body
        /\ log[p][Len(log[p])].effect = "emit"
        /\ log[p][Len(log[p])].event.data.done
        /\ log[p][Len(log[p]) - 1].effect = "add"

C9_Witness ==
  \E p \in Procs :
     /\ Returned(p, "inlet") /\ SearchReturned(p, TRUE)
     /\ Effects(p, "add")[1].outcome.raised

\* C10: when an enabled inlet call tries the construction and it fails, inlet
\* emits the "not configured" status with done = true, calls neither
\* store.search nor store.add, and returns the body as it was given.
C10_NotConfigured ==
  \A p \in Procs :
     (hook[p] = "inlet"
        /\ \E i \in Positions(p, "construct") : log[p][i].outcome # "ok") =>
        /\ pc[p] \in {"not_configured", "returned"}
        /\ Len(Effects(p, "construct")) = 1
        /\ body[p] = entry[p].body
        /\ Effects(p, "search") = << >> /\ Effects(p, "add") = << >>
        /\ log[p][Len(log[p])] = Emit([type |-> "status",
                                       data |-> [description |-> <<"Mem0", " not configured">>,
                                                 done |-> TRUE]])

C10_Witness ==
  \E p \in Procs :
     /\ Returned(p, "inlet")
     /\ Effects(p, "construct") # << >>
     /\ Effects(p, "construct")[1].outcome = "mem0_error"
     /\ HasMessages(entry[p].body)
     /\ self.qdrant_client # None /\ self.mem0_client = None

\* the call in slot p passed the guards of lines 145 and 155 (inlet), or of
\* lines 258 and 267 with the toggle on (outlet): the valves are parsed and
\* leave the memory on
Enabled(p) ==
  /\ hook[p] # "none"
  /\ entry[p].toggle
  /\ ValvesGiven(user[p]) =>
       \/ "memory_enabled" \notin DOMAIN user[p]["valves"]
       \/ user[p]["valves"]["memory_enabled"] \in BoolTrue

\* C11: an inlet invocation that passed both guards has emitted two status
\* events when it returns: the "searching" one with done = false, then one
\* with done = true.
C11_TwoStatuses ==
  \A p \in Procs :
     (Returned(p, "inlet") /\ Enabled(p)) =>
        /\ Len(Emitted(p)) = 2
        /\ ~Emitted(p)[1].event.data.done
        /\ Emitted(p)[2].event.data.done

\* C12: an outlet call with the toggle on, the user's memory on and the client
\* there calls store.add once, with the last message itself, when that
\* message's role is assistant, and has no effect otherwise; it emits nothing
\* and returns the body as given, also when the add raises.
C12_OutletStoresAssistant ==
  \A p \in Procs :
     (hook[p] = "outlet" /\ Enabled(p) /\ entry[p].initialized) =>
        /\ pc[p] = "returned"
        /\ body[p] = entry[p].body
        /\ IF HasMessages(entry[p].body) /\ LastMessage(entry[p].body)["role"] = "assistant"
           THEN /\ Len(log[p]) = 1
                /\ log[p][1].effect = "add"
                /\ log[p][1].messages = <<LastMessage(entry[p].body)>>
                /\ log[p][1].client = self.mem0_client
           ELSE log[p] = << >>

C12_Witness ==
  \E p \in Procs :
     /\ Returned(p, "outlet") /\ Enabled(p) /\ entry[p].initialized
     /\ HasMessages(entry[p].body)
     /\ Len(entry[p].body["messages"]) = 2
     /\ Len(log[p]) = 1
     /\ log[p][1].outcome.raised
     /\ log[p][1].messages[1]["content"] = <<"Blue is great!">>

\* a step that is an outlet call in slot p
C13_OutletStep(p) ==
  /\ Finished(p)
  /\ hook'[p] = "outlet"
  /\ <<pc[p], hook[p], body[p], user[p], entry[p], log[p], frame[p]>>
       # <<pc'[p], hook'[p], body'[p], user'[p], entry'[p], log'[p], frame'[p]>>

\* C13: an outlet call constructs nothing and leaves the Filter as it is;
\* without a client it returns the body as given and calls no store, so the
\* store.add of an outlet goes to a handle that a construction before it made.
C13_OutletNeverConstructs ==
  [][\A p \in Procs :
       C13_OutletStep(p) =>
          /\ self' = self
          /\ ctor'.attempt = "none"
          /\ \A i \in DOMAIN log'[p] : log'[p][i].effect # "construct"
          /\ ~(self.initialized /\ Truthy(self.mem0_client)) =>
                /\ pc'[p] = "returned"
                /\ log'[p] = << >>
                /\ body'[p] = entry'[p].body
          /\ \A i \in DOMAIN log'[p] :
                log'[p][i].effect = "add" =>
                   /\ ctor.made >= 1
                   /\ log'[p][i].client = Memory(ctor.made)]_vars

C13_Witness ==
  \E p \in Procs :
     /\ Returned(p, "outlet") /\ Enabled(p)
     /\ ~entry[p].initialized /\ ctor.failed /\ ~self.initialized
     /\ HasMessages(entry[p].body)
     /\ LastMessage(entry[p].body)["role"] = "assistant"
     /\ log[p] = << >>

\* the construction the invocation tried failed: its client is unavailable
Unavailable(p) == \E i \in Positions(p, "construct") : log[p][i].outcome # "ok"

\* C15: a hook leaves the keys of the body, the number and order of the
\* messages, every role and every content but the last as they were; the
\* last content is as it was, or, in an inlet call whose search found
\* memories, the context followed by what it was.
C15_OnlyLastContent ==
  \A p \in Procs :
     hook[p] # "none" =>
        /\ DOMAIN body[p] = DOMAIN entry[p].body
        /\ \A k \in DOMAIN body[p] : k # "messages" => body[p][k] = entry[p].body[k]
        /\ "messages" \in DOMAIN body[p] =>
              /\ Len(body[p]["messages"]) = Len(entry[p].body["messages"])
              /\ \A i \in DOMAIN body[p]["messages"] :
                    /\ DOMAIN body[p]["messages"][i] = DOMAIN entry[p].body["messages"][i]
                    /\ body[p]["messages"][i]["role"] = entry[p].body["messages"][i]["role"]
                    /\ i < Len(body[p]["messages"]) =>
                          body[p]["messages"][i] = entry[p].body["messages"][i]
        /\ body[p] # entry[p].body =>
              /\ hook[p] = "inlet" /\ SearchReturned(p, TRUE)
              /\ LastMessage(body[p])["content"] = C2_Expected(Results(p), Original(p))

C15_Witness ==
  \E p \in Procs :
     /\ Returned(p, "inlet") /\ SearchReturned(p, TRUE)
     /\ Len(body[p]["messages"]) = 2
     /\ body[p] # entry[p].body
     /\ body[p]["messages"][1] = entry[p].body["messages"][1]

\* C17: an enabled inlet call with a client and a body without messages (no
\* "messages" key, or an empty list) calls neither store.search nor
\* store.add and returns the body as given.
C17_NoMessages ==
  \A p \in Procs :
     (hook[p] = "inlet" /\ ~HasMessages(entry[p].body)) =>
        /\ pc[p] # "raised" => Effects(p, "search") = << >> /\ Effects(p, "add") = << >>
        /\ body[p] = entry[p].body
        /\ (Enabled(p) /\ ~Unavailable(p)) => pc[p] \in {"searching", "returned"}

C17_Witness ==
  \E p \in Procs :
     /\ Returned(p, "inlet") /\ Enabled(p) /\ ~Unavailable(p)
     /\ self.initialized
     /\ "messages" \in DOMAIN entry[p].body /\ entry[p].body["messages"] = << >>
     /\ Emitted(p) # << >>

\* C18: an inlet invocation calls store.search at most once and store.add at
\* most once, the add only after the search has returned, and both only
\* after the client check has passed: on a handle, and never after a failed
\* construction or a "not configured" status.
C18_CallOrder ==
  \A p \in Procs :
     hook[p] = "inlet" =>
        /\ Len(Effects(p, "search")) <= 1
        /\ Len(Effects(p, "add")) <= 1
        /\ \A i \in Positions(p, "add") :
              \E j \in Positions(p, "search") : j < i /\ ~log[p][j].outcome.raised
        /\ \A i \in Positions(p, "search") \cup Positions(p, "add") :
              /\ Truthy(log[p][i].client)
              /\ log[p][1] = Emit(SearchingStatus)
              /\ ~Unavailable(p)
              /\ \A j \in Positions(p, "emit") : log[p][j].event # NotConfiguredStatus

C18_Witness ==
  \E p \in Procs :
     /\ Returned(p, "inlet")
     /\ Len(Effects(p, "construct")) = 1
     /\ Len(Effects(p, "search")) = 1 /\ Len(Effects(p, "add")) = 1

\* C19: in every state the initialized flag is true exactly when the mem0
\* handle is there; a failed construction leaves neither, also when it made
\* the Qdrant client first.
C19_FlagIffHandle ==
  /\ self.initialized <=> Truthy(self.mem0_client)
  /\ ctor.attempt = "failed" => ~self.initialized /\ ~Truthy(self.mem0_client)

C19_Witness ==
  /\ ctor.attempt = "failed"
  /\ Truthy(self.qdrant_client)
  /\ ~self.initialized /\ ~Truthy(self.mem0_client)
  /\ \E p \in Procs : pc[p] = "not_configured"

StoreCalls(p) == Positions(p, "search") \cup Positions(p, "add")

\* C14: whatever the interleaving of the invocations, a Memory handle is
\* made at most once, and all store calls of all invocations go to the one
\* handle the Filter holds.
C14_OneClient ==
  /\ ctor.made <= 1
  /\ \A p \in Procs, q \in Procs :
        \A i \in StoreCalls(p), j \in StoreCalls(q) :
           /\ log[p][i].client = log[q][j].client
           /\ log[p][i].client = self.mem0_client

C14_Witness ==
  \E p \in Procs, q \in Procs :
     /\ p # q
     /\ hook[p] = "inlet" /\ hook[q] = "inlet"
     /\ ~entry[p].initialized /\ ~entry[q].initialized
     /\ pc[p] = "added" /\ pc[q] = "added"
     /\ Effects(p, "construct") # << >> /\ Effects(q, "construct") = << >>
     /\ ~ctor.failed

\* the identity and the tag of the caller of an invocation
C16_Identity(u) == IF u # None /\ "id" \in DOMAIN u THEN u["id"] ELSE "default"

C16_Tag(u) ==
  IF u # None /\ "valves" \in DOMAIN u /\ "user_memory_tag" \in DOMAIN u["valves"]
  THEN [tag |-> u["valves"]["user_memory_tag"]]
  ELSE None

\* C16: every store call of an invocation carries the id of that
\* invocation's caller, "default" when there is no user or no id, and that
\* caller's tag, whatever other invocations are in flight.
C16_OwnIdentity ==
  \A p \in Procs :
     \A i \in StoreCalls(p) :
        /\ log[p][i].user_id = C16_Identity(user[p])
        /\ log[p][i].effect = "add" => log[p][i].metadata = C16_Tag(user[p])

C16_Witness ==
  \E p \in Procs, q \in Procs :
     /\ pc[p] = "added" /\ pc[q] = "returned"
     /\ hook[q] = "inlet"
     /\ user[p] # None /\ user[q] = None
     /\ Effects(p, "search")[1].user_id = "u2"
     /\ Effects(q, "add") # << >>
     /\ Effects(q, "add")[1].user_id = "default"

====
